---- MODULE Spec2Model ----
(***************************************************************************)
(* A model of the reverse proxy's routing core (package proxy):            *)
(* RuntimeMux (a map of path -> *Service guarded by a sync.RWMutex, plus   *)
(* an http.ServeMux on which one closure per path is installed), the       *)
(* goroutines that call AddProxy / removeHandler / PrintPaths / serve      *)
(* requests, and the console loop RuntimeMux.CLI; and of the certificate   *)
(* store (package ssl): CertManager, a map of hostname -> *tls.Certificate *)
(* guarded by its own sync.RWMutex, loaded from a certificate/key file     *)
(* pair.                                                                   *)
(*                                                                         *)
(* Strings the code inspects character by character (URLs, mux patterns,   *)
(* request paths) are sequences of one-character strings.                  *)
(***************************************************************************)
EXTENDS Integers, Sequences, FiniteSets, TLC

\* ------------------------------------------------------------ bounds
\* Total number of operations (API calls, requests, console lines) started.
MaxOps == 4
\* Number of console lines read from stdin.
MaxLines == 3
\* Longest URL string given to NewService in the URL specification.
MaxUrlLen == 5
\* Number of calls made on the certificate store.
MaxCertOps == 4
\* Number of times the certificate/key files are replaced on disk.
MaxRotations == 2

\* ------------------------------------------------------------ strings
IsPrefix(p, s) == Len(p) <= Len(s) /\ SubSeq(s, 1, Len(p)) = p
HasChar(s, c) == \E i \in 1..Len(s) : s[i] = c
Drop(s, n) == SubSeq(s, n + 1, Len(s))
\* Index of the first c in s, or Len(s)+1 when there is none.
IndexOf(s, c) == IF HasChar(s, c) THEN CHOOSE i \in 1..Len(s) : s[i] = c /\ \A j \in 1..(i-1) : s[j] # c ELSE Len(s) + 1
\* Index of the last c in s, or 0 when there is none.
LastIndexOf(s, c) == IF HasChar(s, c) THEN CHOOSE i \in 1..Len(s) : s[i] = c /\ \A j \in (i+1)..Len(s) : s[j] # c ELSE 0

Letters == {"h", "a", "b", "x"}
Digits == {"8"}
UrlChars == {"h", "8", ":", "/"}
RECURSIVE SeqsUpTo(_, _)
SeqsUpTo(S, n) == IF n = 0 THEN {<<>>} ELSE LET shorter == SeqsUpTo(S, n - 1) IN shorter \cup {Append(s, c) : s \in {x \in shorter : Len(x) = n - 1}, c \in S}

\* ------------------------------------------------------------ net/url.Parse as NewService uses it
\* getScheme: letters continue; a digit first, or any other character, means
\* "no scheme"; a colon first is an error; a colon later ends the scheme.
RECURSIVE SchemeScan(_, _)
SchemeScan(u, i) ==
    IF i > Len(u) THEN [err |-> FALSE, scheme |-> <<>>, rest |-> u]
    ELSE IF u[i] \in Letters THEN SchemeScan(u, i + 1)
    ELSE IF u[i] \in Digits THEN (IF i = 1 THEN [err |-> FALSE, scheme |-> <<>>, rest |-> u] ELSE SchemeScan(u, i + 1))
    ELSE IF u[i] = ":" THEN (IF i = 1 THEN [err |-> TRUE, scheme |-> <<>>, rest |-> u] ELSE [err |-> FALSE, scheme |-> SubSeq(u, 1, i - 1), rest |-> Drop(u, i)])
    ELSE [err |-> FALSE, scheme |-> <<>>, rest |-> u]
GetScheme(u) == SchemeScan(u, 1)

\* validOptionalPort: "" or ":" followed by digits only.
ValidOptionalPort(p) == p = <<>> \/ (p[1] = ":" /\ \A i \in 2..Len(p) : p[i] \in Digits)
\* parseHost: the text after the last colon must be a valid port.
HostError(host) == LET i == LastIndexOf(host, ":") IN i # 0 /\ ~ValidOptionalPort(SubSeq(host, i, Len(host)))
\* The authority of rest, when rest starts with "//": up to the next "/".
Authority(rest) == LET r == Drop(rest, 2) IN SubSeq(r, 1, IndexOf(r, "/") - 1)
HasAuthority(scheme, rest) == (scheme # <<>> \/ ~IsPrefix(<<"/", "/", "/">>, rest)) /\ IsPrefix(<<"/", "/">>, rest)
HostOf(auth) == LET i == LastIndexOf(auth, ":") IN IF i = 0 THEN auth ELSE SubSeq(auth, 1, i - 1)

\* url.Parse(u): [err, scheme, host].
UrlParse(u) ==
    LET g == GetScheme(u) IN
    IF g.err THEN [err |-> TRUE, scheme |-> <<>>, host |-> <<>>]
    ELSE IF ~IsPrefix(<<"/">>, g.rest) /\ g.scheme # <<>> THEN [err |-> FALSE, scheme |-> g.scheme, host |-> <<>>]
    ELSE IF ~IsPrefix(<<"/">>, g.rest) /\ HasChar(SubSeq(g.rest, 1, IndexOf(g.rest, "/") - 1), ":") THEN [err |-> TRUE, scheme |-> <<>>, host |-> <<>>]
    ELSE IF HasAuthority(g.scheme, g.rest)
         THEN (IF HostError(Authority(g.rest)) THEN [err |-> TRUE, scheme |-> <<>>, host |-> <<>>]
               ELSE [err |-> FALSE, scheme |-> g.scheme, host |-> HostOf(Authority(g.rest))])
    ELSE [err |-> FALSE, scheme |-> g.scheme, host |-> <<>>]

\* ------------------------------------------------------------ Service
\* A *Service value: the nil pointer, or a pointer to a constructed Service.
NilSvc == [nil |-> TRUE, name |-> <<>>, path |-> <<>>, url |-> <<>>]
MkService(name, path, url) == [nil |-> FALSE, name |-> name, path |-> path, url |-> url]
\* NewService: (service, err).
NewService(name, path, url) == IF UrlParse(url).err THEN [err |-> TRUE, svc |-> NilSvc] ELSE [err |-> FALSE, svc |-> MkService(name, path, url)]

\* ------------------------------------------------------------ the model's inputs
PathA == <<"/", "a", "/">>
PathB == <<"/", "b">>
UrlOld == <<"h", ":", "/", "/", "h">>
UrlNew == <<"h", ":", "/", "/", "8">>
NameOld == <<"o">>
NameNew == <<"n">>
NameB == <<"b">>
SvcOld == NewService(NameOld, PathA, UrlOld).svc
SvcNew == NewService(NameNew, PathA, UrlNew).svc
SvcB == NewService(NameB, PathB, UrlOld).svc
\* The services the goroutines register and remove.
Services == {SvcOld, SvcNew, SvcB}
\* A Service whose Path is the empty string (NewService does not look at Path).
SvcEmptyPath == NewService(NameB, <<>>, UrlOld).svc
\* What a caller can hand to AddProxy: the above, nil, and the empty path.
AnyServices == Services \cup {NilSvc, SvcEmptyPath}
\* The request paths the clients send.
ReqPaths == {PathA, <<"/", "a">>, <<"/", "a", "/", "x">>, PathB, <<"/", "b", "/", "x">>}
\* Every key the routing map can hold.
PathKeys == {s.path : s \in AnyServices}

\* ------------------------------------------------------------ http.ServeMux
\* HandleFunc panics on an empty pattern (and on a pattern registered twice).
InvalidPattern(p) == p = <<>>
\* The pattern whose handler serves path: the exact pattern, else the longest
\* registered pattern that ends in "/" and is a prefix of path.
SubtreeMatches(patterns, path) == {p \in patterns : p # <<>> /\ p[Len(p)] = "/" /\ IsPrefix(p, path)}
MuxMatch(patterns, path) ==
    IF path \in patterns THEN [kind |-> "handler", h |-> path]
    ELSE IF Append(path, "/") \in patterns THEN [kind |-> "redirect", h |-> Append(path, "/")]
    ELSE IF SubtreeMatches(patterns, path) # {}
         THEN [kind |-> "handler", h |-> CHOOSE p \in SubtreeMatches(patterns, path) : \A q \in SubtreeMatches(patterns, path) : Len(q) <= Len(p)]
    ELSE [kind |-> "notfound", h |-> <<>>]

\* ------------------------------------------------------------ state
Console == "cli"
Workers == {"w1", "w2"}
Threads == Workers \cup {Console}
None == "nobody"

VARIABLES
    proxyServers,   \* RuntimeMux.proxyServers: a map; DOMAIN = the keys present
    muxPatterns,    \* the patterns installed on RuntimeMux.mux
    rwWriter,       \* the goroutine holding the RWMutex for writing, or None
    rwReaders,      \* the goroutines holding it for reading
    pc,             \* each goroutine's position
    arg,            \* each goroutine's current call: [svc, path]
    loc,            \* each goroutine's locals: [exists, svc, h] and history marks
    resp,           \* what each goroutine's last operation produced
    panicked,       \* "none", or the panic / fatal error that ended the process
    ops,            \* operations started so far
    lines,          \* console lines read so far
    out,            \* the console's last message
    registered,     \* history: paths for which an AddProxy call has returned
    hist            \* history: per key, the last two values written

vars == <<proxyServers, muxPatterns, rwWriter, rwReaders, pc, arg, loc, resp, panicked, ops, lines, out, registered, hist>>

\* The certificate store's state (package ssl).
VARIABLES
    certs,          \* CertManager.certs: hostname -> certificate
    cmState,        \* "none" (not constructed), "built" (NewCertManager returned it), "literal" (a struct literal)
    certWriter,     \* the goroutine holding the CertManager's RWMutex for writing, or None
    certReaders,    \* the goroutines holding it for reading
    cpc,            \* each goroutine's position in the store's methods
    cloc,           \* each goroutine's locals there
    cres,           \* what each goroutine's last call on the store returned
    disk,           \* the content of certFile/keyFile
    certOps,        \* calls on the store started so far
    certLog,        \* history: the stores into certs, in order
    maxRet          \* history: per hostname, the latest store a GetCertificate has returned

certVars == <<certs, cmState, certWriter, certReaders, cpc, cloc, cres, disk, certOps, certLog, maxRet>>

NoArg == [svc |-> NilSvc, path |-> <<>>]
NoLoc == [exists |-> FALSE, svc |-> NilSvc, h |-> <<>>, tomb |-> FALSE, seen |-> <<NilSvc, NilSvc>>, live |-> {}]
NoResp == [kind |-> "none", status |-> 0, to |-> {}, body |-> <<>>, path |-> <<>>, listed |-> {}, tomb |-> FALSE, seen |-> <<NilSvc, NilSvc>>, live |-> {}, stale |-> FALSE]

\* ------------------------------------------------------------ certificates and the files
\* The leaf certificate's names: createTestCert's shape (a SAN and the same
\* common name) and a certificate with a common name only.
LeafA == [dns |-> <<"a.com">>, cn |-> "a.com"]
LeafB == [dns |-> <<>>, cn |-> "b.com"]
Leaves == {LeafA, LeafB}
\* Lines 73-78: the first DNS name, else the subject's common name.
CertDomain(leaf) == IF Len(leaf.dns) > 0 THEN leaf.dns[1] ELSE leaf.cn
\* A *tls.Certificate: nil, or the pair loaded from one content of the files.
NoCert == [nil |-> TRUE, leaf |-> [dns |-> <<>>, cn |-> ""], ver |-> 0]
MkCert(leaf, ver) == [nil |-> FALSE, leaf |-> leaf, ver |-> ver]
\* The server names of the ClientHellos.
Hosts == {"a.com", "b.com", "other.com", ""}
NoCertLoc == [host |-> "", cert |-> NoCert, domain |-> "", ctor |-> FALSE, floor |-> 0]
NoCertRes == [kind |-> "none", err |-> FALSE, cert |-> NoCert, host |-> "", idx |-> 0, floor |-> 0, diskok |-> FALSE, pool |-> <<>>]
\* The store before anyone constructs it, next to a readable file pair.
CertFresh ==
    /\ certs = <<>>
    /\ certWriter = None
    /\ certReaders = {}
    /\ cpc = [t \in Workers |-> "idle"]
    /\ cloc = [t \in Workers |-> NoCertLoc]
    /\ cres = [t \in Workers |-> NoCertRes]
    /\ certOps = 0
    /\ certLog = <<>>
    /\ maxRet = [h \in Hosts |-> 0]
CertUnbuilt == CertFresh /\ cmState = "none" /\ disk = [ok |-> TRUE, leaf |-> LeafA, ver |-> 1]

\* NewRuntimeMux: an empty map and an empty mux; no goroutine has started.
InitTable ==
    /\ proxyServers = <<>>
    /\ muxPatterns = {}
    /\ rwWriter = None
    /\ rwReaders = {}
    /\ arg = [t \in Threads |-> NoArg]
    /\ loc = [t \in Threads |-> NoLoc]
    /\ resp = [t \in Threads |-> NoResp]
    /\ panicked = "none"
    /\ ops = 0
    /\ lines = 0
    /\ out = "none"
    /\ registered = {}
    /\ hist = [p \in PathKeys |-> <<NilSvc, NilSvc>>]

Init == InitTable /\ pc = [t \in Threads |-> IF t = Console THEN "off" ELSE "idle"] /\ CertUnbuilt

\* Where a call returns to: the console loop's next Scan, or the goroutine's idle state.
Ret(t) == IF t = Console THEN "cli_scan" ELSE "idle"
Running == panicked = "none"
\* Calls and console lines started so far (the model stops starting new ones at MaxOps).
Started == ops + lines
\* A map with key k set to v.
MapPut(m, k, v) == [q \in (DOMAIN m) \cup {k} |-> IF q = k THEN v ELSE m[q]]
\* sync.RWMutex: Lock waits for the writer and the readers to leave; a goroutine
\* blocked in Lock keeps new readers out.
WriterWaiting == \E u \in Threads : pc[u] \in {"add_lock", "rm_lock"}
CanLock == rwWriter = None /\ rwReaders = {}
CanRLock == rwWriter = None /\ ~WriterWaiting

\* ------------------------------------------------------------ AddProxy
\* The entry-point closure of line 69 is installed when the key was absent;
\* HandleFunc panics on an invalid or already registered pattern.
InstallPanics(patterns, path) == InvalidPattern(path) \/ path \in patterns
\* Mutant: an existing live entry is kept (first write wins).
AddEntryKeepFirst(m, svc) == IF svc.path \in DOMAIN m /\ ~m[svc.path].nil THEN m ELSE MapPut(m, svc.path, svc)
\* Mutant: an existing live entry is updated in place, its URL only.
AddEntryInPlace(m, svc) == IF svc.path \in DOMAIN m /\ ~m[svc.path].nil THEN MapPut(m, svc.path, [m[svc.path] EXCEPT !.url = svc.url]) ELSE MapPut(m, svc.path, svc)
\* Line 66: the map after ph.proxyServers[Service.Path] = Service.
AddEntry(m, svc) == MapPut(m, svc.path, svc)
\* Mutant: the Unlock is missing; the writer keeps the lock.
DeferredUnlockMissing(w) == w
\* Lines 63 and 86: the deferred Unlock leaves the lock without a writer.
DeferredUnlock(w) == None
\* Whether AddProxy installs the entry point, from `exists` of line 65.
AddInstalls(exists) == ~exists

\* History: a new AddProxy call for a path ends the "removed and not registered
\* again" mark of the requests under way for that path.
StartLocals(t, path) == [u \in Threads |-> IF u = t THEN NoLoc ELSE IF arg[u].path = path THEN [loc[u] EXCEPT !.tomb = FALSE] ELSE loc[u]]

\* A goroutine calls AddProxy(svc) and blocks in ph.Lock() (line 62).
AddProxyCall(t, svc) ==
    /\ Running /\ pc[t] = "idle" /\ Started < MaxOps
    /\ pc' = [pc EXCEPT ![t] = "add_lock"]
    /\ arg' = [arg EXCEPT ![t] = [svc |-> svc, path |-> <<>>]]
    /\ loc' = StartLocals(t, svc.path)
    /\ resp' = [resp EXCEPT ![t] = NoResp]
    /\ ops' = ops + 1
    /\ UNCHANGED <<certVars, proxyServers, muxPatterns, rwWriter, rwReaders, panicked, lines, out, registered, hist>>

\* ph.Lock() returns (line 62).
AddLock(t) ==
    /\ Running /\ pc[t] = "add_lock" /\ CanLock
    /\ rwWriter' = t
    /\ pc' = [pc EXCEPT ![t] = "add_write"]
    /\ UNCHANGED <<certVars, proxyServers, muxPatterns, rwReaders, arg, loc, resp, panicked, ops, lines, out, registered, hist>>

\* Lines 65-67: read `exists`, store the service. Service.Path on a nil
\* pointer panics; the deferred Unlock runs and the process dies.
AddWrite(t) ==
    /\ Running /\ pc[t] = "add_write"
    /\ IF arg[t].svc.nil
       THEN /\ panicked' = "nil pointer dereference"
            /\ rwWriter' = DeferredUnlock(rwWriter)
            /\ pc' = [pc EXCEPT ![t] = "dead"]
            /\ UNCHANGED <<proxyServers, loc, hist>>
       ELSE /\ loc' = [loc EXCEPT ![t].exists = arg[t].svc.path \in DOMAIN proxyServers]
            /\ proxyServers' = AddEntry(proxyServers, arg[t].svc)
            /\ hist' = [hist EXCEPT ![arg[t].svc.path] = <<hist[arg[t].svc.path][2], arg[t].svc>>]
            /\ pc' = [pc EXCEPT ![t] = "add_handle"]
            /\ UNCHANGED <<rwWriter, panicked>>
    /\ UNCHANGED <<certVars, muxPatterns, rwReaders, arg, resp, ops, lines, out, registered>>

\* Lines 68-81: install the closure when the key was new, then the deferred
\* Unlock and the return.
AddHandle(t) ==
    /\ Running /\ pc[t] = "add_handle"
    /\ rwWriter' = DeferredUnlock(rwWriter)
    /\ IF AddInstalls(loc[t].exists) /\ InstallPanics(muxPatterns, arg[t].svc.path)
       THEN /\ panicked' = "http: invalid pattern"
            /\ pc' = [pc EXCEPT ![t] = "dead"]
            /\ UNCHANGED <<muxPatterns, registered, out>>
       ELSE /\ muxPatterns' = IF AddInstalls(loc[t].exists) THEN muxPatterns \cup {arg[t].svc.path} ELSE muxPatterns
            /\ registered' = registered \cup {arg[t].svc.path}
            /\ pc' = [pc EXCEPT ![t] = Ret(t)]
            /\ out' = IF t = Console THEN "added" ELSE out
            /\ UNCHANGED panicked
    /\ UNCHANGED <<certVars, proxyServers, rwReaders, arg, loc, resp, ops, lines, hist>>

\* ------------------------------------------------------------ removeHandler
\* Line 87: the map after ph.proxyServers[Service.Path] = nil.
RemoveEntry(m, path) == MapPut(m, path, NilSvc)

\* A goroutine calls removeHandler(svc) and blocks in ph.Lock() (line 85).
RemoveCall(t, svc) ==
    /\ Running /\ pc[t] = "idle" /\ Started < MaxOps
    /\ pc' = [pc EXCEPT ![t] = "rm_lock"]
    /\ arg' = [arg EXCEPT ![t] = [svc |-> svc, path |-> <<>>]]
    /\ loc' = [loc EXCEPT ![t] = NoLoc]
    /\ resp' = [resp EXCEPT ![t] = NoResp]
    /\ ops' = ops + 1
    /\ UNCHANGED <<certVars, proxyServers, muxPatterns, rwWriter, rwReaders, panicked, lines, out, registered, hist>>

RemoveLock(t) ==
    /\ Running /\ pc[t] = "rm_lock" /\ CanLock
    /\ rwWriter' = t
    /\ pc' = [pc EXCEPT ![t] = "rm_write"]
    /\ UNCHANGED <<certVars, proxyServers, muxPatterns, rwReaders, arg, loc, resp, panicked, ops, lines, out, registered, hist>>

\* Line 87 and the deferred Unlock: the key's value becomes nil (the key is
\* created when absent). Service.Path on a nil pointer panics.
RemoveWrite(t) ==
    /\ Running /\ pc[t] = "rm_write"
    /\ rwWriter' = DeferredUnlock(rwWriter)
    /\ IF arg[t].svc.nil
       THEN /\ panicked' = "nil pointer dereference"
            /\ pc' = [pc EXCEPT ![t] = "dead"]
            /\ UNCHANGED <<proxyServers, hist, out>>
       ELSE /\ proxyServers' = RemoveEntry(proxyServers, arg[t].svc.path)
            /\ hist' = [hist EXCEPT ![arg[t].svc.path] = <<hist[arg[t].svc.path][2], NilSvc>>]
            /\ pc' = [pc EXCEPT ![t] = Ret(t)]
            /\ out' = IF t = Console THEN "removed" ELSE out
            /\ UNCHANGED panicked
    /\ UNCHANGED <<certVars, muxPatterns, rwReaders, arg, loc, resp, ops, lines, registered>>

\* ------------------------------------------------------------ a request
\* The value and `exists` of a map read.
MapGet(m, k) == IF k \in DOMAIN m THEN [exists |-> TRUE, svc |-> m[k]] ELSE [exists |-> FALSE, svc |-> NilSvc]
\* Mutant: a key that exists is forwarded to, nil value or not.
ServeChoiceIgnoresNil(exists, svc) == IF exists THEN "forward" ELSE "fallback"
\* Line 73: forward when the key exists with a non-nil service, else fall back.
ServeChoice(exists, svc) == IF exists /\ ~svc.nil THEN "forward" ELSE "fallback"
\* Mutant: the RUnlock is deferred to the end of the closure.
ReadersKeptWhileServing(readers, t) == readers
\* Line 72: the readers left after the closure's RUnlock.
ReadersAfterLookup(readers, t) == readers \ {t}
\* Mutant: the fallback answers 404 with the bare text.
FallbackRespNotFound(path) == [kind |-> "fallback", status |-> 404, to |-> {}, body |-> <<"fallback: Path not found">>, path |-> path, listed |-> {}, tomb |-> FALSE, seen |-> <<NilSvc, NilSvc>>, live |-> {}, stale |-> FALSE]
\* FallbackHandler (lines 55-57): status 200, the text followed by the path.
FallbackResp(path) == [NoResp EXCEPT !.kind = "fallback", !.status = 200, !.body = <<"fallback: Path not found">> \o path, !.path = path]
\* service.ServeHTTP: the reverse proxy relays to the service's URL.
ForwardResp(svc, path) == [NoResp EXCEPT !.kind = "forward", !.to = {svc.url}, !.path = path]
AddInFlight(path) == \E u \in Threads : pc[u] \in {"add_lock", "add_write", "add_handle"} /\ arg[u].svc.path = path
\* History mark: the request starts at a moment when its path was registered,
\* then removed, and no AddProxy for it is under way.
Tombstoned(path) == path \in registered /\ path \in DOMAIN proxyServers /\ proxyServers[path].nil /\ ~AddInFlight(path)

\* History mark: the services of the registered prefixes the path starts with
\* whose map entry is live at this moment.
LiveFor(path) == {proxyServers[p] : p \in {q \in DOMAIN proxyServers : q \in registered /\ ~proxyServers[q].nil /\ q # <<>> /\ IsPrefix(q, path)}}
RemoveInFlight(path) == \E u \in Threads : pc[u] \in {"rm_lock", "rm_write"} /\ arg[u].svc.path = path
\* History mark: at the moment of the forward the prefix's entry is nil and
\* the removeHandler call that wrote it has returned.
StaleAt(h) == h \in DOMAIN proxyServers /\ proxyServers[h].nil /\ ~RemoveInFlight(h) /\ ~AddInFlight(h)

\* mux.ServeHTTP: the ServeMux picks the handler for the path; without one it
\* answers 404 (or 301 to the path with a trailing slash).
ReqCall(t, path) ==
    /\ Running /\ pc[t] = "idle" /\ Started < MaxOps
    /\ ops' = ops + 1
    /\ arg' = [arg EXCEPT ![t] = [svc |-> NilSvc, path |-> path]]
    /\ LET m == MuxMatch(muxPatterns, path) IN
       IF m.kind = "handler"
       THEN /\ pc' = [pc EXCEPT ![t] = "h_rlock"]
            /\ loc' = [loc EXCEPT ![t] = [NoLoc EXCEPT !.h = m.h, !.tomb = Tombstoned(path)]]
            /\ resp' = [resp EXCEPT ![t] = NoResp]
       ELSE /\ pc' = [pc EXCEPT ![t] = "idle"]
            /\ loc' = [loc EXCEPT ![t] = NoLoc]
            /\ resp' = [resp EXCEPT ![t] = [NoResp EXCEPT !.kind = m.kind, !.status = IF m.kind = "redirect" THEN 301 ELSE 404, !.path = path, !.tomb = Tombstoned(path), !.live = LiveFor(path)]]
    /\ UNCHANGED <<certVars, proxyServers, muxPatterns, rwWriter, rwReaders, panicked, lines, out, registered, hist>>

\* ph.RLock() returns (line 70).
HandlerRLock(t) ==
    /\ Running /\ pc[t] = "h_rlock" /\ CanRLock
    /\ rwReaders' = rwReaders \cup {t}
    /\ pc' = [pc EXCEPT ![t] = "h_read"]
    /\ UNCHANGED <<certVars, proxyServers, muxPatterns, rwWriter, arg, loc, resp, panicked, ops, lines, out, registered, hist>>

\* Lines 71-72: read the map under the read lock, then RUnlock.
HandlerLookup(t) ==
    /\ Running /\ pc[t] = "h_read"
    /\ loc' = [loc EXCEPT ![t].exists = MapGet(proxyServers, loc[t].h).exists, ![t].svc = MapGet(proxyServers, loc[t].h).svc, ![t].seen = hist[loc[t].h], ![t].live = LiveFor(arg[t].path)]
    /\ rwReaders' = ReadersAfterLookup(rwReaders, t)
    /\ pc' = [pc EXCEPT ![t] = "h_serve"]
    /\ UNCHANGED <<certVars, proxyServers, muxPatterns, rwWriter, arg, resp, panicked, ops, lines, out, registered, hist>>

\* Lines 73-77: the upstream round trip, or the fallback handler.
HandlerServe(t) ==
    /\ Running /\ pc[t] = "h_serve"
    /\ resp' = [resp EXCEPT ![t] = [(IF ServeChoice(loc[t].exists, loc[t].svc) = "forward" THEN ForwardResp(loc[t].svc, arg[t].path) ELSE FallbackResp(arg[t].path)) EXCEPT !.tomb = loc[t].tomb, !.seen = loc[t].seen, !.live = loc[t].live, !.stale = StaleAt(loc[t].h)]]
    /\ rwReaders' = rwReaders \ {t}
    /\ pc' = [pc EXCEPT ![t] = "idle"]
    /\ loc' = [loc EXCEPT ![t] = NoLoc]
    /\ UNCHANGED <<certVars, proxyServers, muxPatterns, rwWriter, arg, panicked, ops, lines, out, registered, hist>>

\* ------------------------------------------------------------ PrintPaths
\* Mutant: every value of the map is printed, nil or not.
ListedAll(m) == {m[k] : k \in DOMAIN m}
\* Lines 96-101: the non-nil services of the map.
Listed(m) == {m[k] : k \in {q \in DOMAIN m : ~m[q].nil}}

PrintCall(t) ==
    /\ Running /\ pc[t] = "idle" /\ Started < MaxOps
    /\ ops' = ops + 1
    /\ pc' = [pc EXCEPT ![t] = "pp_rlock"]
    /\ arg' = [arg EXCEPT ![t] = NoArg]
    /\ loc' = [loc EXCEPT ![t] = NoLoc]
    /\ resp' = [resp EXCEPT ![t] = NoResp]
    /\ UNCHANGED <<certVars, proxyServers, muxPatterns, rwWriter, rwReaders, panicked, lines, out, registered, hist>>

PrintRLock(t) ==
    /\ Running /\ pc[t] = "pp_rlock" /\ CanRLock
    /\ rwReaders' = rwReaders \cup {t}
    /\ pc' = [pc EXCEPT ![t] = "pp_print"]
    /\ UNCHANGED <<certVars, proxyServers, muxPatterns, rwWriter, arg, loc, resp, panicked, ops, lines, out, registered, hist>>

\* Lines 95-102 and the deferred RUnlock.
PrintPaths(t) ==
    /\ Running /\ pc[t] = "pp_print"
    /\ resp' = [resp EXCEPT ![t] = [NoResp EXCEPT !.kind = "list", !.listed = Listed(proxyServers)]]
    /\ rwReaders' = rwReaders \ {t}
    /\ pc' = [pc EXCEPT ![t] = Ret(t)]
    /\ UNCHANGED <<certVars, proxyServers, muxPatterns, rwWriter, arg, loc, panicked, ops, lines, out, registered, hist>>

\* ------------------------------------------------------------ the goroutines of the package's callers
Steps(t) ==
    \/ AddLock(t) \/ AddWrite(t) \/ AddHandle(t)
    \/ RemoveLock(t) \/ RemoveWrite(t)
    \/ HandlerRLock(t) \/ HandlerLookup(t) \/ HandlerServe(t)
    \/ PrintRLock(t) \/ PrintPaths(t)

Calls(t, svcs) ==
    \/ \E s \in svcs : AddProxyCall(t, s)
    \/ \E s \in svcs : RemoveCall(t, s)
    \/ \E p \in ReqPaths : ReqCall(t, p)
    \/ PrintCall(t)

Next == \E t \in Workers : Calls(t, Services) \/ Steps(t)

Spec == Init /\ [][Next]_vars

\* ------------------------------------------------------------ the console (RuntimeMux.CLI)
\* strings.Fields: the maximal runs of non-space characters.
RECURSIVE Fields(_)
Fields(s) ==
    IF s = <<>> THEN <<>>
    ELSE IF s[1] = " " THEN Fields(Tail(s))
    ELSE <<SubSeq(s, 1, IndexOf(s, " ") - 1)>> \o Fields(Drop(s, IndexOf(s, " ") - 1))

WAdd == <<"a", "d", "d">>
WRemove == <<"r", "e", "m", "o", "v", "e">>
WList == <<"l", "i", "s", "t">>
WExit == <<"e", "x", "i", "t">>
WHelp == <<"h", "e", "l", "p">>
Sp == <<" ">>
UrlBad == <<"8", "h", ":", "8", "/">>
\* The lines typed at the console.
CliLines == {
    WAdd \o Sp \o NameOld \o Sp \o PathA \o Sp \o UrlOld,
    WAdd \o Sp \o NameNew \o Sp \o Sp \o PathA \o Sp \o UrlNew \o Sp,
    WAdd \o Sp \o NameB \o Sp \o PathB \o Sp \o UrlBad,
    WAdd \o Sp \o NameB \o Sp \o PathB,
    WAdd,
    WRemove \o Sp \o PathA,
    Sp \o WRemove \o Sp \o PathB,
    WRemove,
    WRemove \o Sp \o PathA \o Sp \o PathB,
    WList,
    WExit,
    WHelp,
    <<>>,
    Sp \o Sp }

\* Mutant: remove accepts extra arguments.
RemoveArityAtLeast(args) == Len(args) >= 2
\* Line 140: remove takes the verb and one argument.
RemoveArityOk(args) == Len(args) = 2
\* Line 124: add takes the verb and three arguments.
AddArityOk(args) == Len(args) = 4

\* Lines 112-159: read a line and act on it. add and remove go on into
\* AddProxy and the unlocked map read of line 144; the rest is done here.
CLIScan(line) ==
    /\ Running /\ pc[Console] = "cli_scan" /\ lines < MaxLines /\ Started < MaxOps
    /\ lines' = lines + 1
    /\ resp' = [resp EXCEPT ![Console] = NoResp]
    /\ LET args == Fields(line)
           made == NewService(args[2], args[3], args[4]) IN
       IF Len(args) = 0 THEN
            /\ out' = "empty" /\ UNCHANGED <<pc, arg, loc>>
       ELSE IF args[1] = WAdd THEN
            IF ~AddArityOk(args) THEN out' = "usage: add" /\ UNCHANGED <<pc, arg, loc>>
            ELSE IF made.err THEN out' = "error creating service" /\ UNCHANGED <<pc, arg, loc>>
            ELSE /\ pc' = [pc EXCEPT ![Console] = "add_lock"]
                 /\ arg' = [arg EXCEPT ![Console] = [svc |-> made.svc, path |-> <<>>]]
                 /\ loc' = StartLocals(Console, made.svc.path)
                 /\ out' = "none"
       ELSE IF args[1] = WRemove THEN
            IF ~RemoveArityOk(args) THEN out' = "usage: remove" /\ UNCHANGED <<pc, arg, loc>>
            ELSE /\ pc' = [pc EXCEPT ![Console] = "cli_rm_read"]
                 /\ arg' = [arg EXCEPT ![Console] = [svc |-> NilSvc, path |-> args[2]]]
                 /\ out' = "none"
                 /\ UNCHANGED loc
       ELSE IF args[1] = WList THEN
            /\ pc' = [pc EXCEPT ![Console] = "pp_rlock"]
            /\ out' = "none"
            /\ UNCHANGED <<arg, loc>>
       ELSE IF args[1] = WExit THEN
            /\ pc' = [pc EXCEPT ![Console] = "cli_done"]
            /\ out' = "none"
            /\ UNCHANGED <<arg, loc>>
       ELSE out' = "unknown command" /\ UNCHANGED <<pc, arg, loc>>
    /\ UNCHANGED <<certVars, proxyServers, muxPatterns, rwWriter, rwReaders, panicked, ops, registered, hist>>

\* Line 112: Scan returns false at the end of stdin; the loop ends.
CLIEof ==
    /\ Running /\ pc[Console] = "cli_scan"
    /\ pc' = [pc EXCEPT ![Console] = "cli_done"]
    /\ out' = "none"
    /\ UNCHANGED <<certVars, proxyServers, muxPatterns, rwWriter, rwReaders, arg, loc, resp, panicked, ops, lines, registered, hist>>

\* A goroutine is inside its map assignment while holding the write lock.
MapWriteUnderWay == \E u \in Threads : pc[u] \in {"add_write", "rm_write"}

\* Line 144: the console reads the map without taking the lock, then calls
\* removeHandler with the value read. A read that overlaps another
\* goroutine's map assignment is a data race: the runtime may stop the
\* process ("concurrent map read and map write") or the read may go through.
CLIRemoveRead ==
    /\ Running /\ pc[Console] = "cli_rm_read"
    /\ \/ /\ MapGet(proxyServers, arg[Console].path).exists
          /\ pc' = [pc EXCEPT ![Console] = "rm_lock"]
          /\ arg' = [arg EXCEPT ![Console].svc = MapGet(proxyServers, arg[Console].path).svc]
          /\ UNCHANGED <<out, panicked>>
       \/ /\ ~MapGet(proxyServers, arg[Console].path).exists
          /\ pc' = [pc EXCEPT ![Console] = "cli_scan"]
          /\ out' = "no service found"
          /\ UNCHANGED <<arg, panicked>>
       \/ /\ MapWriteUnderWay
          /\ panicked' = "concurrent map read and map write"
          /\ pc' = [pc EXCEPT ![Console] = "dead"]
          /\ UNCHANGED <<arg, out>>
    /\ UNCHANGED <<certVars, proxyServers, muxPatterns, rwWriter, rwReaders, loc, resp, ops, lines, registered, hist>>

InitCLI == InitTable /\ pc = [t \in Threads |-> IF t = Console THEN "cli_scan" ELSE "idle"] /\ CertUnbuilt

\* The console next to one goroutine that serves requests and calls the API.
CliThreads == {Console, "w1"}
NextCLI ==
    \/ \E line \in CliLines : CLIScan(line)
    \/ CLIEof
    \/ CLIRemoveRead
    \/ \E t \in CliThreads : Calls(t, Services) \/ Steps(t)

SpecCLI == InitCLI /\ [][NextCLI]_vars

\* The console alone (no other goroutine touches the RuntimeMux once
\* main has started it).
NextConsole ==
    \/ \E line \in CliLines : CLIScan(line)
    \/ CLIEof
    \/ CLIRemoveRead
    \/ \E t \in {Console} : AddLock(t) \/ AddWrite(t) \/ AddHandle(t) \/ RemoveLock(t) \/ RemoveWrite(t) \/ PrintRLock(t) \/ PrintPaths(t)

SpecConsole == InitCLI /\ [][NextConsole]_vars

\* ------------------------------------------------------------ other callers
\* One console line: add <name> <path> <url>, for every URL up to MaxUrlLen.
UrlInputs == SeqsUpTo(UrlChars, MaxUrlLen)
AddLine(url) == WAdd \o Sp \o NameOld \o Sp \o PathA \o Sp \o url
NextURL ==
    \/ \E u \in UrlInputs : lines = 0 /\ CLIScan(AddLine(u))
    \/ \E t \in {Console} : AddLock(t) \/ AddWrite(t) \/ AddHandle(t)

SpecURL == InitCLI /\ [][NextURL]_vars

\* One goroutine that hands AddProxy any *Service value.
NextAnyArg ==
    \E t \in {"w1"} :
        \/ \E s \in AnyServices : AddProxyCall(t, s)
        \/ \E s \in Services : RemoveCall(t, s)
        \/ \E p \in ReqPaths : ReqCall(t, p)
        \/ PrintCall(t)
        \/ Steps(t)

SpecAnyArg == Init /\ [][NextAnyArg]_vars

\* ------------------------------------------------------------ the certificate store (CertManager)
\* Mutant: a hostname that already has a certificate keeps it.
CertStoreKeepFirst(m, domain, cert) == IF domain \in DOMAIN m THEN m ELSE MapPut(m, domain, cert)
\* Mutant: an existing certificate is updated in place, its leaf only.
CertStoreInPlace(m, domain, cert) == IF domain \in DOMAIN m THEN MapPut(m, domain, [m[domain] EXCEPT !.leaf = cert.leaf]) ELSE MapPut(m, domain, cert)
\* Line 80: the map after cm.certs[domain] = &cert.
CertStore(m, domain, cert) == MapPut(m, domain, cert)
\* Mutant: no default certificate; a hostname without an entry is an error.
CertResolveExactOnly(m, host, pick) == IF host \in DOMAIN m THEN [cert |-> m[host], err |-> FALSE] ELSE [cert |-> NoCert, err |-> TRUE]
\* Lines 47-55: the hostname's entry; else the first entry the map iteration
\* yields (pick: Go iterates a map in an unspecified, varying order); else
\* an error.
CertResolve(m, host, pick) ==
    IF host \in DOMAIN m THEN [cert |-> m[host], err |-> FALSE]
    ELSE IF DOMAIN m # {} THEN [cert |-> m[pick], err |-> FALSE]
    ELSE [cert |-> NoCert, err |-> TRUE]
\* The entries the iteration of line 51 can yield first.
IterationFirst(m, host) == IF host \in DOMAIN m THEN {host} ELSE IF DOMAIN m = {} THEN {""} ELSE DOMAIN m
\* Mutant: NewCertManager hands out the manager whatever loadCertificate returned.
CtorStateAlwaysBuilt(err) == "built"
\* Lines 23-26: NewCertManager returns the manager only when the load succeeded.
CtorState(err) == IF err THEN "none" ELSE "built"
\* History: the index in the log of the last store for hostname h, or 0.
LastIdx(log, h) == IF \E i \in 1..Len(log) : log[i].domain = h THEN CHOOSE i \in 1..Len(log) : log[i].domain = h /\ \A j \in (i + 1)..Len(log) : log[j].domain # h ELSE 0
CertCallable == cmState \in {"built", "literal"}
CertBudget == certOps < MaxCertOps
CertCanLock == certWriter = None /\ certReaders = {}
CertCanRLock == certWriter = None /\ ~\E u \in Workers : cpc[u] = "lc_lock"

\* NewCertManager(certFile, keyFile) (lines 17-22): an empty map, then loadCertificate.
NewCertManagerCall(t) ==
    /\ cpc[t] = "idle" /\ cmState = "none" /\ CertBudget
    /\ \A u \in Workers : ~cloc[u].ctor
    /\ cpc' = [cpc EXCEPT ![t] = "lc_load"]
    /\ cloc' = [cloc EXCEPT ![t] = [NoCertLoc EXCEPT !.ctor = TRUE]]
    /\ cres' = [cres EXCEPT ![t] = NoCertRes]
    /\ certOps' = certOps + 1
    /\ UNCHANGED <<vars, certs, cmState, certWriter, certReaders, disk, certLog, maxRet>>

\* A goroutine calls cm.loadCertificate() to reload.
LoadCall(t) ==
    /\ cpc[t] = "idle" /\ CertCallable /\ CertBudget
    /\ cpc' = [cpc EXCEPT ![t] = "lc_load"]
    /\ cloc' = [cloc EXCEPT ![t] = NoCertLoc]
    /\ cres' = [cres EXCEPT ![t] = NoCertRes]
    /\ certOps' = certOps + 1
    /\ UNCHANGED <<vars, certs, cmState, certWriter, certReaders, disk, certLog, maxRet>>

\* Lines 59-62: tls.LoadX509KeyPair reads both files and parses the leaf; an
\* unreadable or unparsable pair is the error return, before any lock.
LoadKeyPair(t) ==
    /\ cpc[t] = "lc_load"
    /\ IF disk.ok
       THEN /\ cloc' = [cloc EXCEPT ![t].cert = MkCert(disk.leaf, disk.ver)]
            /\ cpc' = [cpc EXCEPT ![t] = "lc_lock"]
            /\ UNCHANGED <<cres, cmState>>
       ELSE /\ cres' = [cres EXCEPT ![t] = [NoCertRes EXCEPT !.kind = IF cloc[t].ctor THEN "new" ELSE "load", !.err = TRUE]]
            /\ cmState' = IF cloc[t].ctor THEN CtorState(TRUE) ELSE cmState
            /\ cloc' = [cloc EXCEPT ![t] = NoCertLoc]
            /\ cpc' = [cpc EXCEPT ![t] = "idle"]
    /\ UNCHANGED <<vars, certs, certWriter, certReaders, disk, certOps, certLog, maxRet>>

\* cm.Lock() returns (line 64).
LoadLock(t) ==
    /\ cpc[t] = "lc_lock" /\ CertCanLock
    /\ certWriter' = t
    /\ cpc' = [cpc EXCEPT ![t] = "lc_parse"]
    /\ UNCHANGED <<vars, certs, cmState, certReaders, cloc, cres, disk, certOps, certLog, maxRet>>

\* Lines 67-78, with the write lock held: x509.ParseCertificate of the leaf
\* (it parsed in LoadX509KeyPair, so it parses here) and the choice of the
\* map key.
LoadParse(t) ==
    /\ cpc[t] = "lc_parse"
    /\ cloc' = [cloc EXCEPT ![t].domain = CertDomain(cloc[t].cert.leaf)]
    /\ cpc' = [cpc EXCEPT ![t] = "lc_store"]
    /\ UNCHANGED <<vars, certs, cmState, certWriter, certReaders, cres, disk, certOps, certLog, maxRet>>

\* Lines 80-83 and the deferred Unlock; NewCertManager then returns the manager.
LoadStore(t) ==
    /\ cpc[t] = "lc_store"
    /\ certs' = CertStore(certs, cloc[t].domain, cloc[t].cert)
    /\ certLog' = Append(certLog, [domain |-> cloc[t].domain, cert |-> cloc[t].cert])
    /\ certWriter' = None
    /\ cres' = [cres EXCEPT ![t] = [NoCertRes EXCEPT !.kind = IF cloc[t].ctor THEN "new" ELSE "load", !.cert = cloc[t].cert, !.host = cloc[t].domain, !.diskok = TRUE]]
    /\ cmState' = IF cloc[t].ctor THEN CtorState(FALSE) ELSE cmState
    /\ cloc' = [cloc EXCEPT ![t] = NoCertLoc]
    /\ cpc' = [cpc EXCEPT ![t] = "idle"]
    /\ UNCHANGED <<vars, certReaders, disk, certOps, maxRet>>

\* A TLS handshake calls cm.GetCertificate(clientHello) and blocks in RLock (line 44).
GetCall(t, host) ==
    /\ cpc[t] = "idle" /\ CertCallable /\ CertBudget
    /\ cpc' = [cpc EXCEPT ![t] = "gc_rlock"]
    /\ cloc' = [cloc EXCEPT ![t] = [NoCertLoc EXCEPT !.host = host, !.floor = maxRet[host]]]
    /\ cres' = [cres EXCEPT ![t] = NoCertRes]
    /\ certOps' = certOps + 1
    /\ UNCHANGED <<vars, certs, cmState, certWriter, certReaders, disk, certLog, maxRet>>

\* cm.RLock() returns (line 44).
GetRLock(t) ==
    /\ cpc[t] = "gc_rlock" /\ CertCanRLock
    /\ certReaders' = certReaders \cup {t}
    /\ cpc' = [cpc EXCEPT ![t] = "gc_read"]
    /\ UNCHANGED <<vars, certs, cmState, certWriter, cloc, cres, disk, certOps, certLog, maxRet>>

\* Lines 47-55 and the deferred RUnlock.
GetCertificate(t) ==
    /\ cpc[t] = "gc_read"
    /\ \E pick \in IterationFirst(certs, cloc[t].host) :
          LET r == CertResolve(certs, cloc[t].host, pick)
              i == IF r.err THEN 0 ELSE LastIdx(certLog, CertDomain(r.cert.leaf)) IN
          /\ cres' = [cres EXCEPT ![t] = [kind |-> "get", err |-> r.err, cert |-> r.cert, host |-> cloc[t].host, idx |-> i, floor |-> cloc[t].floor, diskok |-> FALSE, pool |-> certs]]
          /\ maxRet' = IF cloc[t].host \in DOMAIN certs /\ i > maxRet[cloc[t].host] THEN [maxRet EXCEPT ![cloc[t].host] = i] ELSE maxRet
    /\ certReaders' = certReaders \ {t}
    /\ cloc' = [cloc EXCEPT ![t] = NoCertLoc]
    /\ cpc' = [cpc EXCEPT ![t] = "idle"]
    /\ UNCHANGED <<vars, certs, cmState, certWriter, disk, certOps, certLog>>

\* What the file pair can hold: a pair for either name, or a pair that
\* LoadX509KeyPair rejects.
FileContents == {[ok |-> TRUE, leaf |-> LeafA], [ok |-> TRUE, leaf |-> LeafB], [ok |-> FALSE, leaf |-> LeafA]}
\* The operator replaces certFile/keyFile (a renewal, a broken pair, a pair
\* for another name). Only LoadX509KeyPair looks at the files, so the
\* replacement is taken at the moments a goroutine is about to read them.
Rotate ==
    /\ disk.ver <= MaxRotations
    /\ \E t \in Workers : cpc[t] = "lc_load"
    /\ \E c \in FileContents : disk' = [ok |-> c.ok, leaf |-> c.leaf, ver |-> disk.ver + 1]
    /\ UNCHANGED <<vars, certs, cmState, certWriter, certReaders, cpc, cloc, cres, certOps, certLog, maxRet>>

\* The store is either constructed by NewCertManager or, as in
\* TestLoadCertificate, a struct literal with an empty map.
InitCert ==
    /\ InitTable /\ pc = [t \in Threads |-> IF t = Console THEN "off" ELSE "idle"]
    /\ CertFresh
    /\ cmState \in {"none", "literal"}
    /\ \E c \in FileContents : disk = [ok |-> c.ok, leaf |-> c.leaf, ver |-> 1]

NextCert ==
    \/ \E t \in Workers :
          \/ NewCertManagerCall(t) \/ LoadCall(t)
          \/ LoadKeyPair(t) \/ LoadLock(t) \/ LoadParse(t) \/ LoadStore(t)
          \/ \E h \in Hosts : GetCall(t, h)
          \/ GetRLock(t) \/ GetCertificate(t)
    \/ Rotate

SpecCert == InitCert /\ [][NextCert]_<<vars, certVars>>

\* ============================================================ claims
Served(t) == resp[t].kind \in {"forward", "fallback", "notfound", "redirect"}

\* C1: a request sent to a prefix at a moment when register(b) has returned,
\* the prefix's entry has since been removed (lookup finds nil) and no later
\* register has started, gets the fallback response and is not forwarded.
C1_RemovedPrefixGetsFallback ==
    \A t \in Threads :
        (Served(t) /\ resp[t].tomb) =>
            /\ resp[t].kind = "fallback"
            /\ resp[t].to = {}

\* C2: a request whose lookup happens after register(b1) and then
\* register(b2) for the same prefix were the last two writes of that prefix
\* is forwarded to b2's URL, to nothing else, and to exactly one backend.
C2_LastRegisterWins ==
    \A t \in Threads :
        (Served(t) /\ ~resp[t].seen[1].nil /\ ~resp[t].seen[2].nil) =>
            /\ resp[t].kind = "forward"
            /\ resp[t].to = {resp[t].seen[2].url}
            /\ Cardinality(resp[t].to) = 1
C2_Witness ==
    \E t \in Threads : resp[t].kind = "forward" /\ resp[t].seen = <<SvcOld, SvcNew>> /\ resp[t].to = {UrlNew}

\* C3: removeHandler for a prefix that was never registered changes neither
\* the map's entries nor the installed entry points.
NeverRegistered(path) == path \notin DOMAIN proxyServers /\ ~AddInFlight(path)
C3_RemoveUnregisteredIsNoop ==
    [][\A t \in Threads :
          (pc[t] = "rm_write" /\ pc'[t] # "rm_write" /\ ~arg[t].svc.nil /\ NeverRegistered(arg[t].svc.path))
              => (proxyServers' = proxyServers /\ muxPatterns' = muxPatterns)]_vars

\* The Go scheduler runs every goroutine that can take a step, and a released
\* RWMutex is handed to a goroutine waiting for it.
FairSpec == Spec /\ \A t \in Workers : WF_vars(Steps(t))

\* C4: under any interleaving of AddProxy, removeHandler, requests and
\* PrintPaths no panic or fatal error occurs, and every operation a goroutine
\* has started completes.
C4_NoDeadlockNoPanic ==
    /\ [](panicked = "none")
    /\ \A t \in Workers : [](pc[t] # "idle" => <>(pc[t] = "idle"))
\* A writer blocked in Lock() behind a reader, with the other goroutine's
\* reader section under way.
C4_Witness ==
    \E t \in Workers, u \in Workers : pc[t] \in {"add_lock", "rm_lock"} /\ pc[u] \in {"h_read", "pp_print"} /\ u \in rwReaders

\* C5: the entry point of a prefix is installed by the prefix's first
\* registration and by no later one: the installed entry points are exactly
\* the prefixes for which a register call has returned.
C5_EntryPointOnFirstRegistration == muxPatterns = registered /\ panicked = "none"

\* C6: add with a URL that is not an absolute URL (scheme://host) fails in
\* NewService, so no such service reaches AddProxy or the map.
AbsoluteUrl(u) ==
    /\ ~UrlParse(u).err
    /\ \E i \in 2..Len(u) :
          /\ u[1] \in Letters
          /\ \A j \in 1..(i - 1) : u[j] \in Letters \cup Digits
          /\ Len(u) >= i + 3
          /\ SubSeq(u, i, i + 2) = <<":", "/", "/">>
          /\ u[i + 3] \in Letters \cup Digits
C6_InvalidUrlRejected ==
    /\ pc[Console] \in {"add_lock", "add_write", "add_handle"} => AbsoluteUrl(arg[Console].svc.url)
    /\ \A p \in DOMAIN proxyServers : proxyServers[p].nil \/ AbsoluteUrl(proxyServers[p].url)

\* C7: AddProxy returns (success for a well-formed service, an error for a
\* nil service or an empty path) without a panic, and a rejected call leaves
\* the map without the rejected key.
C7_RegisterFailsWithoutCrash ==
    /\ panicked = "none"
    /\ <<>> \notin DOMAIN proxyServers

\* C8: a request that is in its forwarding or fallback step holds the lock
\* in neither mode, and a goroutine blocked in Lock() next to it (the other
\* goroutines idle) can take the lock.
C8_NoLockWhileServing ==
    \A t \in Threads :
        pc[t] = "h_serve" =>
            /\ t \notin rwReaders
            /\ rwWriter # t
            /\ \A u \in Threads \ {t} :
                  (pc[u] \in {"add_lock", "rm_lock"} /\ \A v \in Threads \ {t, u} : pc[v] \in {"idle", "off"}) => CanLock
C8_Witness ==
    \E t \in Threads, u \in Threads : pc[t] = "h_serve" /\ pc[u] = "add_write" /\ rwWriter = u

\* C9: every goroutine about to read the map holds the lock (in either
\* mode), every goroutine about to write it holds the write lock, and no
\* unlocked read overlaps a write.
C9_MapAccessUnderLock ==
    /\ \A t \in Threads : pc[t] \in {"h_read", "pp_print", "cli_rm_read"} => (t \in rwReaders \/ rwWriter = t)
    /\ \A t \in Threads : pc[t] \in {"add_write", "rm_write"} => rwWriter = t
    /\ ~(pc[Console] = "cli_rm_read" /\ MapWriteUnderWay)

\* C10: what a lookup returns is nil (not found) or one whole Service of the
\* prefix, the one handed to the last register call that wrote the prefix;
\* never a mix of two services.
C10_LookupSeesWholeBackend ==
    \A t \in Threads :
        pc[t] = "h_serve" =>
            /\ loc[t].exists
            /\ loc[t].svc = loc[t].seen[2]
            /\ loc[t].svc.nil \/ (loc[t].svc \in Services /\ loc[t].svc.path = loc[t].h)
C10_Witness ==
    \E t \in Threads, u \in Threads :
        /\ pc[t] = "h_serve" /\ loc[t].svc = SvcNew /\ loc[t].seen = <<SvcOld, SvcNew>>
        /\ pc[u] \in {"add_lock", "add_write", "rm_lock", "rm_write"}

\* C11: a request whose path starts with a registered prefix that is live at
\* the moment the request is routed (the mux match when no entry point
\* matches, the map lookup otherwise) is forwarded to that prefix's backend,
\* with or without a trailing slash in the prefix.
C11_PrefixRequestsForwarded ==
    \A t \in Threads :
        (Served(t) /\ resp[t].live # {}) =>
            /\ resp[t].kind = "forward"
            /\ resp[t].to \subseteq {s.url : s \in resp[t].live}

\* C12: a request that reached an installed entry point and whose lookup
\* found the prefix without a live backend gets the fallback response:
\* status 200, a body that ends with the request path, nothing forwarded;
\* two fallback responses for the same path have the same status and body.
C12_FallbackResponse ==
    /\ \A t \in Threads :
          (resp[t].kind \in {"forward", "fallback"} /\ resp[t].seen[2].nil) =>
              /\ resp[t].kind = "fallback"
              /\ resp[t].status = 200
              /\ Len(resp[t].body) = 1 + Len(resp[t].path)
              /\ SubSeq(resp[t].body, 2, Len(resp[t].body)) = resp[t].path
              /\ resp[t].path = arg[t].path
              /\ resp[t].to = {}
    /\ \A t \in Threads, u \in Threads :
          (resp[t].kind = "fallback" /\ resp[u].kind = "fallback" /\ resp[t].path = resp[u].path) =>
              (resp[t].status = resp[u].status /\ resp[t].body = resp[u].body)
C12_Witness ==
    \E t \in Threads :
        /\ resp[t].kind = "fallback" /\ resp[t].path = <<"/", "a", "/", "x">>
        /\ ~resp[t].seen[1].nil /\ resp[t].seen[2].nil

\* C13: PrintPaths prints exactly the services of the keys whose value is
\* not nil, each once, all read while the read lock keeps writers out, and
\* changes neither the map nor the mux.
LiveKeys(m) == {k \in DOMAIN m : ~m[k].nil}
C13_ListIsLiveSnapshot ==
    [][\A t \in Threads :
          (pc[t] = "pp_print" /\ pc'[t] # "pp_print") =>
              /\ resp'[t].listed = {proxyServers[k] : k \in LiveKeys(proxyServers)}
              /\ Cardinality(resp'[t].listed) = Cardinality(LiveKeys(proxyServers))
              /\ NilSvc \notin resp'[t].listed
              /\ t \in rwReaders /\ rwWriter = None
              /\ proxyServers' = proxyServers /\ muxPatterns' = muxPatterns]_vars
C13_Witness ==
    \E t \in Threads :
        /\ resp[t].kind = "list" /\ resp[t].listed # {}
        /\ \E k \in DOMAIN proxyServers : proxyServers[k].nil

\* C20: a request is forwarded only to the value its lookup found as the
\* prefix's last write, so a lookup that follows a completed removeHandler
\* (and precedes any later AddProxy) forwards to nothing; a request whose
\* lookup came before the removeHandler is still forwarded to the old
\* backend after removeHandler has returned.
C20_DeregisterOrdering ==
    \A t \in Threads :
        /\ resp[t].kind = "forward" => (~resp[t].seen[2].nil /\ resp[t].to = {resp[t].seen[2].url})
        /\ (Served(t) /\ resp[t].seen[2].nil) => resp[t].to = {}
        /\ (pc[t] = "h_serve" /\ ~loc[t].svc.nil) => ENABLED HandlerServe(t)
C20_Witness ==
    \E t \in Threads :
        /\ resp[t].kind = "forward" /\ resp[t].stale
        /\ resp[t].to = {UrlOld} /\ resp[t].seen[2] = SvcOld

\* The certificates of a store's entries.
CertsOf(m) == {m[d] : d \in DOMAIN m}

\* C14: on a non-empty store GetCertificate returns, for every server name
\* (the empty one included), the entry stored under that name when there is
\* one and otherwise one of the loaded certificates, without an error; it
\* returns an error only on an empty store.
C14_ResolveMatchOrDefault ==
    \A t \in Workers :
        cres[t].kind = "get" =>
            /\ cres[t].pool # <<>> =>
                  /\ ~cres[t].err /\ ~cres[t].cert.nil
                  /\ cres[t].host \in DOMAIN cres[t].pool => cres[t].cert = cres[t].pool[cres[t].host]
                  /\ cres[t].host \notin DOMAIN cres[t].pool => cres[t].cert \in CertsOf(cres[t].pool)
            /\ cres[t].err => cres[t].pool = <<>>
C14_Witness ==
    \E t \in Workers, u \in Workers :
        /\ cres[t].kind = "get" /\ cres[t].host \in {"other.com", ""} /\ cres[t].pool # <<>> /\ ~cres[t].cert.nil
        /\ cres[u].kind = "get" /\ cres[u].host \in DOMAIN cres[u].pool /\ cres[u].cert = cres[u].pool[cres[u].host]

\* C15: two GetCertificate calls with the same server name that has no
\* entry, on the same contents of the store, return the same certificate.
C15_DefaultIsDeterministic ==
    \A t \in Workers, u \in Workers :
        (/\ cres[t].kind = "get" /\ cres[u].kind = "get"
         /\ cres[t].host = cres[u].host /\ cres[t].pool = cres[u].pool
         /\ cres[t].host \notin DOMAIN cres[t].pool)
            => cres[t].cert = cres[u].cert

\* C16: the step that ends a failing loadCertificate returns an error and
\* leaves the map as it was; the step that ends a successful one stores the
\* certificate just read under its hostname and touches no other entry; and
\* a GetCertificate for a hostname with an entry returns what the last
\* successful load for that hostname stored.
C16_ReloadStoresOrLeaves ==
    [][\A t \in Workers :
          /\ (cpc[t] = "lc_load" /\ cpc'[t] = "idle") => (cres'[t].err /\ certs' = certs)
          /\ (cpc[t] = "lc_store" /\ cpc'[t] = "idle") =>
                /\ ~cres'[t].err
                /\ cloc[t].domain \in DOMAIN certs' /\ certs'[cloc[t].domain] = cloc[t].cert
                /\ \A d \in DOMAIN certs : d # cloc[t].domain => (d \in DOMAIN certs' /\ certs'[d] = certs[d])
          /\ (\A u \in Workers : cpc[u] # "lc_store") => certs' = certs
          /\ (cpc[t] = "gc_read" /\ cpc'[t] = "idle" /\ LastIdx(certLog, cloc[t].host) > 0) =>
                cres'[t].cert = certLog[LastIdx(certLog, cloc[t].host)].cert]_<<vars, certVars>>
C16_Witness ==
    \E t \in Workers, u \in Workers :
        /\ cres[t].kind = "get" /\ cres[t].host \in DOMAIN cres[t].pool /\ cres[t].cert.ver > 1
        /\ Len(certLog) > 1 /\ certLog[Len(certLog)].cert = cres[t].cert
        /\ cres[u].kind = "load" /\ cres[u].err /\ certs # <<>>

\* C17: NewCertManager fails when the pair cannot be loaded, and a manager it
\* returned never has an empty map: no GetCertificate on it returns the
\* no-certificate error or a nil certificate.
C17_BuiltStoreNeverEmpty ==
    /\ \A t \in Workers : cres[t].kind = "new" => (cres[t].err <=> ~cres[t].diskok)
    /\ cmState = "built" =>
          /\ certs # <<>>
          /\ \A t \in Workers : cres[t].kind = "get" => (~cres[t].err /\ ~cres[t].cert.nil)
C17_Witness ==
    \E t \in Workers, u \in Workers :
        /\ cres[t].kind = "new" /\ cres[t].err
        /\ cmState = "built" /\ cres[u].kind = "get" /\ Len(certLog) > 1

\* C18: loadCertificate reads the files and parses the leaf before it takes
\* the write lock, and holds the lock for the map assignment only.
C18_ParseBeforeLock ==
    \A t \in Workers :
        /\ cpc[t] \in {"lc_load", "lc_parse"} => certWriter # t
        /\ certWriter = t => cpc[t] = "lc_store"

\* C19: a GetCertificate for a hostname with an entry returns one whole
\* certificate that a load stored for that hostname, the one stored last
\* before the read, and never an older one than a GetCertificate that
\* returned before this call started.
C19_ReloadAtomicToObservers ==
    \A t \in Workers :
        (cres[t].kind = "get" /\ cres[t].host \in DOMAIN cres[t].pool) =>
            /\ cres[t].idx \in 1..Len(certLog)
            /\ certLog[cres[t].idx] = [domain |-> cres[t].host, cert |-> cres[t].cert]
            /\ \E v \in 1..(MaxRotations + 1), leaf \in Leaves : cres[t].cert = MkCert(leaf, v)
            /\ cres[t].idx >= cres[t].floor
C19_Witness ==
    \E t \in Workers, u \in Workers :
        /\ cres[t].kind = "get" /\ cres[u].kind = "get" /\ cres[t].host = cres[u].host
        /\ cres[t].host \in DOMAIN cres[t].pool /\ cres[u].host \in DOMAIN cres[u].pool
        /\ cres[t].idx < cres[u].idx /\ cres[u].floor = cres[t].idx

\* C21: a console line that is empty, has an unknown verb, or is an add with
\* other than three arguments or a remove with other than one leaves the map
\* and the mux as they were, and the console is back at its Scan.
WordCount(line) == Len(Fields(line))
Malformed(line) ==
    \/ WordCount(line) = 0
    \/ WordCount(line) > 0 /\ Fields(line)[1] \notin {WAdd, WRemove, WList, WExit}
    \/ WordCount(line) > 0 /\ Fields(line)[1] = WAdd /\ WordCount(line) - 1 # 3
    \/ WordCount(line) > 0 /\ Fields(line)[1] = WRemove /\ WordCount(line) - 1 # 1
C21_MalformedLineIsNoop ==
    [][\A line \in CliLines :
          (Malformed(line) /\ CLIScan(line)) =>
              /\ proxyServers' = proxyServers /\ muxPatterns' = muxPatterns
              /\ rwWriter' = rwWriter /\ rwReaders' = rwReaders
              /\ pc'[Console] = "cli_scan" /\ panicked' = "none"]_vars
C21_Witness ==
    /\ out \in {"usage: add", "usage: remove", "unknown command", "empty"}
    /\ pc[Console] = "cli_scan" /\ lines > 1
    /\ \E p \in DOMAIN proxyServers : ~proxyServers[p].nil

\* C22: every prefix whose map entry is live and for which an AddProxy call
\* has returned has its entry point on the mux, whatever the order of the
\* AddProxy and removeHandler calls.
C22_LivePrefixHasEntryPoint ==
    \A p \in DOMAIN proxyServers :
        (~proxyServers[p].nil /\ p \in registered /\ ~AddInFlight(p)) => p \in muxPatterns

\* C23: the console never panics on well-formed add / remove / list lines;
\* a remove of a path whose entry is already nil completes and leaves the
\* entry nil.
C23_ConsoleNeverPanics ==
    /\ panicked = "none"
    /\ pc[Console] # "dead"
    /\ \A t \in {Console} : pc[t] \in {"rm_lock", "rm_write"} => ~arg[t].svc.nil

\* C24: the certificate a hostname is left with is the one read from the
\* newest file content among the loads that stored for it: a load that read
\* older content never replaces the result of a load that read newer content.
C24_NewestReadWins ==
    \A d \in DOMAIN certs :
        \A i \in 1..Len(certLog) :
            certLog[i].domain = d => certs[d].ver >= certLog[i].cert.ver

====
